---- MODULE Spec2Model ----
(***************************************************************************)
(* zod-conf: binding schema nodes to environment keys (env.ts), the        *)
(* identity-keyed metadata store (env-metadata.ts) and the resolver and    *)
(* merger behind load / safeLoad (define.ts).                              *)
(*                                                                         *)
(* Schema nodes live in a heap (a sequence); a node's identity is its      *)
(* index.  A Proxy made by env()'s wrap is a node of its own, distinct     *)
(* from its target.  JavaScript values are records of one fixed layout,    *)
(* strings are sequences of one-character strings so that Number() can be  *)
(* modelled by what it does to the characters.                             *)
(***************************************************************************)
EXTENDS Integers, Sequences, FiniteSets, TLC

VARIABLES
    heap,         \* the schema nodes created so far; a node's identity is its index
    envMetadata,  \* _envMetadata: node identity -> {key, type}
    conf,         \* the ZodConfSchema made by define: its shape and its schema
    last,         \* the last call: its operation, arguments and outcome
    origin        \* history: a node env() or a chained call returned -> the (key, type)
                  \* of the env() call its chain starts at

vars == <<heap, envMetadata, conf, last, origin>>

(***************************************************************************)
(* JavaScript values                                                       *)
(***************************************************************************)
EmptyObj == [k \in {} |-> 0]

Val(t, s, n, e, b, o) == [t |-> t, s |-> s, n |-> n, e |-> e, b |-> b, o |-> o]

Undefined == Val("undefined", <<>>, 0, 0, FALSE, EmptyObj)
Null == Val("null", <<>>, 0, 0, FALSE, EmptyObj)
Str(chars) == Val("string", chars, 0, 0, FALSE, EmptyObj)
Bool(b) == Val("boolean", <<>>, 0, 0, b, EmptyObj)
\* the finite number n * 10^(-e), e >= 0, n not divisible by 10 unless e = 0
Num(n, e) == Val("number", <<>>, n, e, FALSE, EmptyObj)
IntNum(n) == Num(n, 0)
NaN == Val("nan", <<>>, 0, 0, FALSE, EmptyObj)
\* +Infinity (n = 1) and -Infinity (n = -1)
Infinity(sign) == Val("infinity", <<>>, sign, 0, FALSE, EmptyObj)
\* a plain object: o maps its own keys to values
Obj(o) == Val("object", <<>>, 0, 0, FALSE, o)
\* an array: o maps "0", "1", ... to the elements
Arr(o) == Val("array", <<>>, 0, 0, FALSE, o)

\* typeof v === 'number'
IsNumberType(v) == v.t \in {"number", "nan", "infinity"}
\* typeof v === 'object' (null and arrays included)
TypeofObject(v) == v.t \in {"object", "array", "null"}

\* ToBoolean
Truthy(v) ==
    CASE v.t = "undefined" -> FALSE
      [] v.t = "null" -> FALSE
      [] v.t = "string" -> v.s # <<>>
      [] v.t = "boolean" -> v.b
      [] v.t = "number" -> v.n # 0
      [] v.t = "nan" -> FALSE
      [] OTHER -> TRUE

\* obj[key] on a value: an own key's value, else undefined
GetProp(v, key) ==
    IF v.t \in {"object", "array"} /\ key \in DOMAIN v.o THEN v.o[key] ELSE Undefined

(***************************************************************************)
(* Number(string): the StringToNumber conversion of ECMAScript             *)
(***************************************************************************)
WhiteSpace == {" "}
Digits == {"0", "1", "2", "3", "4", "5", "6", "7", "8", "9"}
HexDigits == Digits \cup {"a", "b", "c", "d", "e", "f", "A", "B", "C", "D", "E", "F"}

DigitVal(c) ==
    CASE c = "0" -> 0 [] c = "1" -> 1 [] c = "2" -> 2 [] c = "3" -> 3
      [] c = "4" -> 4 [] c = "5" -> 5 [] c = "6" -> 6 [] c = "7" -> 7
      [] c = "8" -> 8 [] c = "9" -> 9
      [] c \in {"a", "A"} -> 10 [] c \in {"b", "B"} -> 11
      [] c \in {"c", "C"} -> 12 [] c \in {"d", "D"} -> 13
      [] c \in {"e", "E"} -> 14 [] c \in {"f", "F"} -> 15

RECURSIVE TrimStart(_)
TrimStart(s) ==
    IF s # <<>> /\ Head(s) \in WhiteSpace THEN TrimStart(Tail(s)) ELSE s

RECURSIVE TrimEnd(_)
TrimEnd(s) ==
    IF s # <<>> /\ s[Len(s)] \in WhiteSpace
    THEN TrimEnd(SubSeq(s, 1, Len(s) - 1))
    ELSE s

AllIn(s, set) == \A i \in 1..Len(s) : s[i] \in set

RECURSIVE RadixValue(_, _)
RadixValue(s, radix) ==
    IF s = <<>> THEN 0
    ELSE RadixValue(SubSeq(s, 1, Len(s) - 1), radix) * radix + DigitVal(s[Len(s)])

RECURSIVE Pow10(_)
Pow10(k) == IF k = 0 THEN 1 ELSE 10 * Pow10(k - 1)

\* n * 10^(-e) with the trailing zeros of the fraction removed
RECURSIVE Normalize(_, _)
Normalize(n, e) ==
    IF n = 0 THEN IntNum(0)
    ELSE IF e > 0 /\ n % 10 = 0 THEN Normalize(n \div 10, e - 1)
    ELSE Num(n, e)

\* n * 10^p for any integer p
Scaled(n, p) == IF p >= 0 THEN IntNum(n * Pow10(p)) ELSE Normalize(n, -p)

\* the first index of s holding a character of set, or 0
FirstIndex(s, set) ==
    IF \E i \in 1..Len(s) : s[i] \in set
    THEN CHOOSE i \in 1..Len(s) : s[i] \in set /\ \A j \in 1..(i - 1) : s[j] \notin set
    ELSE 0

InfinityChars == <<"I", "n", "f", "i", "n", "i", "t", "y">>

\* the value of integer part ip, fraction fp and exponent digits eDig
DecimalValue(ip, fp, hasExp, eNeg, eDig, sign) ==
    IF /\ AllIn(ip, Digits) /\ AllIn(fp, Digits) /\ Len(ip) + Len(fp) > 0
       /\ (hasExp => eDig # <<>> /\ AllIn(eDig, Digits))
    THEN Scaled(sign * RadixValue(ip \o fp, 10),
                (IF eNeg THEN -RadixValue(eDig, 10) ELSE RadixValue(eDig, 10)) - Len(fp))
    ELSE NaN

\* mantissa and exponent part, the mantissa split at its dot (dot = 0: none)
DecimalParts(mant, dot, hasExp, expo, sign) ==
    DecimalValue(IF dot = 0 THEN mant ELSE SubSeq(mant, 1, dot - 1),
                 IF dot = 0 THEN <<>> ELSE SubSeq(mant, dot + 1, Len(mant)),
                 hasExp,
                 expo # <<>> /\ Head(expo) = "-",
                 IF expo # <<>> /\ Head(expo) \in {"+", "-"} THEN Tail(expo) ELSE expo,
                 sign)

DecimalMantissa(mant, hasExp, expo, sign) ==
    DecimalParts(mant, FirstIndex(mant, {"."}), hasExp, expo, sign)

\* s split at its exponent indicator (ePos = 0: none)
DecimalSplit(s, ePos, sign) ==
    DecimalMantissa(IF ePos = 0 THEN s ELSE SubSeq(s, 1, ePos - 1),
                    ePos # 0,
                    IF ePos = 0 THEN <<>> ELSE SubSeq(s, ePos + 1, Len(s)),
                    sign)

\* an unsigned StrDecimalLiteral: digits [. digits] [e [sign] digits]
UnsignedDecimal(s, sign) == DecimalSplit(s, FirstIndex(s, {"e", "E"}), sign)

Radix(c) ==
    CASE c \in {"x", "X"} -> 16
      [] c \in {"o", "O"} -> 8
      [] c \in {"b", "B"} -> 2
      [] OTHER -> 0

RadixDigits(r) ==
    CASE r = 16 -> HexDigits
      [] r = 8 -> {"0", "1", "2", "3", "4", "5", "6", "7"}
      [] r = 2 -> {"0", "1"}
      [] OTHER -> {}

\* a StrDecimalLiteral without its sign
SignedDecimal(body, sign) ==
    IF body = InfinityChars THEN Infinity(sign) ELSE UnsignedDecimal(body, sign)

\* the StringNumericLiteral between the white space
TrimmedToNumber(t) ==
    IF t = <<>> THEN IntNum(0)
    ELSE IF Len(t) >= 2 /\ t[1] = "0" /\ Radix(t[2]) # 0
    THEN IF Len(t) >= 3 /\ AllIn(SubSeq(t, 3, Len(t)), RadixDigits(Radix(t[2])))
         THEN IntNum(RadixValue(SubSeq(t, 3, Len(t)), Radix(t[2])))
         ELSE NaN
    ELSE SignedDecimal(IF Head(t) \in {"+", "-"} THEN Tail(t) ELSE t,
                       IF Head(t) = "-" THEN -1 ELSE 1)

StringToNumber(chars) == TrimmedToNumber(TrimEnd(TrimStart(chars)))

\* Number(value) for the values resolveEnvValue passes: a string or undefined
ToNumber(v) ==
    CASE v.t = "undefined" -> NaN
      [] v.t = "null" -> IntNum(0)
      [] v.t = "boolean" -> IF v.b THEN IntNum(1) ELSE IntNum(0)
      [] v.t = "string" -> StringToNumber(v.s)
      [] IsNumberType(v) -> v
      [] OTHER -> NaN

\* isNaN(number)
IsNaN(v) == v.t = "nan"
\* Number.isInteger(number)
NumberIsInteger(v) == v.t = "number" /\ v.e = 0

(***************************************************************************)
(* Schema nodes.  A node is a zod schema instance or a Proxy around one.   *)
(*   innerType, schema : _def.innerType and _def.schema (0 when missing)    *)
(*   target            : a Proxy's target (0 for a zod instance)            *)
(*   envKey, envType   : the arguments of wrap its handler closes over      *)
(*   shape             : a ZodObject's shape, field name -> node            *)
(***************************************************************************)
Node(kind, innerType, schema, shape, description, values, defaultValue) ==
    [kind |-> kind, innerType |-> innerType, schema |-> schema, target |-> 0,
     envKey |-> "", envType |-> "", shape |-> shape, description |-> description,
     values |-> values, defaultValue |-> defaultValue]

ProxyNode(target, envKey, envType) ==
    [kind |-> "Proxy", innerType |-> 0, schema |-> 0, target |-> target,
     envKey |-> envKey, envType |-> envType, shape |-> EmptyObj,
     description |-> Undefined, values |-> {}, defaultValue |-> Undefined]

IsProxy(h, id) == h[id].kind = "Proxy"

\* the zod instance an operation on node id reaches: a Proxy forwards every
\* property read to its target
Raw(h, id) == IF IsProxy(h, id) THEN h[id].target ELSE id

\* (schema as any)._def
Def(h, id) == h[Raw(h, id)]

\* a variant of the instanceof test that looks through the wrappers of a node
RECURSIVE InstanceofZodObjectUnwrapped(_, _)
InstanceofZodObjectUnwrapped(h, id) ==
    \/ Def(h, id).kind = "ZodObject"
    \/ Def(h, id).innerType # 0 /\ InstanceofZodObjectUnwrapped(h, Def(h, id).innerType)

\* schema instanceof ZodObject (a Proxy has its target's prototype chain)
InstanceofZodObject(h, id) == Def(h, id).kind = "ZodObject"

\* the result of an operation that may allocate: the heap and the store after
\* it, and what it returns
Outcome(h, m, ret) == [heap |-> h, meta |-> m, ret |-> ret]

\* a variant of MetadataSet that keeps no other entry
MetadataSetOnly(m, id, key, type) == [k \in {id} |-> [key |-> key, type |-> type]]

\* a variant of MetadataSet that gives every entry the new key and type
MetadataSetShared(m, id, key, type) ==
    [k \in DOMAIN m \cup {id} |-> [key |-> key, type |-> type]]

\* _envMetadata.set(node, {key, type})
MetadataSet(m, id, key, type) ==
    [k \in DOMAIN m \cup {id} |-> IF k = id THEN [key |-> key, type |-> type] ELSE m[k]]

(***************************************************************************)
(* env(key): wrap and the four constructors                                *)
(***************************************************************************)
\* wrap(schema, envKey, envType): a new Proxy around schema, registered
wrap(h, m, schema, envKey, envType) ==
    LET proxied == Len(h) + 1
    IN  Outcome(Append(h, ProxyNode(schema, envKey, envType)),
                MetadataSet(m, proxied, envKey, envType),
                proxied)

BaseKind(type) ==
    CASE type = "string" -> "ZodString"
      [] type = "number" -> "ZodNumber"
      [] type = "boolean" -> "ZodBoolean"
      [] type = "enum" -> "ZodEnum"

\* string(), coerce.number(), coerce.boolean(), zenum(values)
BaseNode(type, values) ==
    Node(BaseKind(type), 0, 0, EmptyObj, Undefined,
         IF type = "enum" THEN values ELSE {}, Undefined)

\* env(key).string() / .number() / .boolean() / .enum(values)
env(h, m, key, type, values) ==
    wrap(Append(h, BaseNode(type, values)), m, Len(h) + 1, key, type)

(***************************************************************************)
(* resolveEnvValue                                                         *)
(***************************************************************************)
NoMetadata == [key |-> "", type |-> ""]

\* a variant of the loop that walks _def.innerType only
RECURSIVE FindMetadataInnerTypeOnly(_, _, _)
FindMetadataInnerTypeOnly(h, m, currentSchema) ==
    IF currentSchema \in DOMAIN m THEN m[currentSchema]
    ELSE LET def == Def(h, currentSchema)
         IN  IF def.innerType # 0 THEN FindMetadataInnerTypeOnly(h, m, def.innerType)
             ELSE NoMetadata

\* the while loop: the first layer with a store entry, walking _def.innerType,
\* else _def.schema
RECURSIVE FindMetadata(_, _, _)
FindMetadata(h, m, currentSchema) ==
    IF currentSchema \in DOMAIN m THEN m[currentSchema]
    ELSE LET def == Def(h, currentSchema)
         IN  IF def.innerType # 0 THEN FindMetadata(h, m, def.innerType)
             ELSE IF def.schema # 0 THEN FindMetadata(h, m, def.schema)
             ELSE NoMetadata

\* a variant of CoerceString that trims the raw string
CoerceStringTrimmed(value) ==
    IF value.t = "string" THEN Str(TrimEnd(TrimStart(value.s))) ELSE value

\* case 'string'
CoerceString(value) == value

\* case 'number'
\* a variant of CoerceNumber that converts every raw string, the empty one too
CoerceNumberKeepEmpty(value) == IF value # Undefined THEN ToNumber(value) ELSE Undefined
CoerceNumber(value) == IF Truthy(value) THEN ToNumber(value) ELSE Undefined

\* case 'boolean'
CoerceBooleanTruthy(value) ==
    IF value = Str(<<"t", "r", "u", "e">>) THEN Bool(TRUE)
    ELSE IF value = Str(<<"f", "a", "l", "s", "e">>) THEN Bool(FALSE)
    ELSE IF Truthy(value) THEN Bool(TRUE)
    ELSE Undefined
CoerceBoolean(value) ==
    IF value = Str(<<"t", "r", "u", "e">>) THEN Bool(TRUE)
    ELSE IF value = Str(<<"f", "a", "l", "s", "e">>) THEN Bool(FALSE)
    ELSE Undefined

\* a variant of GuessNumber that takes any number, integral or not
GuessAnyNumber(value, numValue) ==
    IF Truthy(value) /\ ~IsNaN(numValue) THEN numValue ELSE value
\* guess if enum is number-based
GuessNumber(value, numValue) ==
    IF Truthy(value) /\ ~IsNaN(numValue) /\ NumberIsInteger(numValue)
    THEN numValue
    ELSE value
\* case 'enum'
\* a variant of the enum case that hands the raw string on as it is
CoerceEnumRaw(value) == value

CoerceEnum(value) == GuessNumber(value, ToNumber(value))

\* the switch on envType
CoerceEnv(envType, value) ==
    CASE envType = "string" -> CoerceString(value)
      [] envType = "number" -> CoerceNumber(value)
      [] envType = "boolean" -> CoerceBoolean(value)
      [] envType = "enum" -> CoerceEnum(value)
      [] OTHER -> Undefined

\* the part after the loop, for the metadata the loop found
CoerceFound(metadata, e) ==
    IF metadata.key = "" THEN Undefined
    ELSE CoerceEnv(metadata.type, GetProp(e, metadata.key))

resolveEnvValue(h, m, schema, e) == CoerceFound(FindMetadata(h, m, schema), e)

(***************************************************************************)
(* Loaders and loadValue                                                   *)
(***************************************************************************)
\* { env }: an object of raw strings by key
EnvLoader(e) == [values |-> Undefined, env |-> Obj(e)]
\* { values }: a tree of plain values by field name
ValuesLoader(v) == [values |-> v, env |-> Undefined]

\* 'values' in loader && loader.values
HasValues(loader) == Truthy(loader.values)
\* 'env' in loader && loader.env
HasEnv(loader) == Truthy(loader.env)

\* the loaders.map of the nested-object branch
\* a variant of subLoader that passes every loader on whole
subLoaderWhole(loader, key) == loader

\* a variant of subLoader that passes a Values Source on whole when its value
\* at the key is not an object
subLoaderFallsBack(loader, key) ==
    IF HasValues(loader)
    THEN LET nested == GetProp(loader.values, key)
         IN  ValuesLoader(IF Truthy(nested) /\ TypeofObject(nested)
                          THEN nested
                          ELSE loader.values)
    ELSE loader

subLoader(loader, key) ==
    IF HasValues(loader)
    THEN LET nested == GetProp(loader.values, key)
         IN  ValuesLoader(IF Truthy(nested) /\ TypeofObject(nested)
                          THEN nested
                          ELSE Obj(EmptyObj))
    ELSE loader

subLoaders(loaders, key) == [i \in 1..Len(loaders) |-> subLoader(loaders[i], key)]

\* if (value !== undefined) input[key] = value
assign(value, cur) == IF value # Undefined THEN value ELSE cur

\* a variant of leafStep where a key once assigned is never assigned again
leafStepFirstWins(h, m, schema, key, loader, cur) ==
    IF cur # Undefined THEN cur
    ELSE IF HasValues(loader)
    THEN GetProp(loader.values, key)
    ELSE IF HasEnv(loader)
    THEN resolveEnvValue(h, m, schema, loader.env)
    ELSE cur

\* a variant of leafStep that reads loader.values only for a schema with metadata
leafStepAnnotatedOnly(h, m, schema, key, loader, cur) ==
    IF HasValues(loader)
    THEN IF FindMetadata(h, m, schema) # NoMetadata
         THEN assign(GetProp(loader.values, key), cur)
         ELSE cur
    ELSE IF HasEnv(loader)
    THEN assign(resolveEnvValue(h, m, schema, loader.env), cur)
    ELSE cur

\* a variant of leafStep that falls back on the other name: loader.values at
\* the env key, loader.env at the field name
leafStepEitherName(h, m, schema, key, loader, cur) ==
    IF HasValues(loader)
    THEN assign(assign(GetProp(loader.values, key),
                       GetProp(loader.values, FindMetadata(h, m, schema).key)), cur)
    ELSE IF HasEnv(loader)
    THEN assign(assign(resolveEnvValue(h, m, schema, loader.env),
                       GetProp(loader.env, key)), cur)
    ELSE cur

\* what one loader assigns to input[key]: cur when it assigns nothing
leafStep(h, m, schema, key, loader, cur) ==
    IF HasValues(loader)
    THEN assign(GetProp(loader.values, key), cur)
    ELSE IF HasEnv(loader)
    THEN assign(resolveEnvValue(h, m, schema, loader.env), cur)
    ELSE cur

\* the for loop over the loaders, from loader i on; Undefined stands for a key
\* that was never assigned
RECURSIVE leafLoop(_, _, _, _, _, _, _)
leafLoop(h, m, schema, key, loaders, i, cur) ==
    IF i > Len(loaders) THEN cur
    ELSE leafLoop(h, m, schema, key, loaders, i + 1,
                  leafStep(h, m, schema, key, loaders[i], cur))

\* the object input: the keys that were assigned, Undefined standing for a
\* key that was not
inputOf(fields) ==
    Obj([key \in {k \in DOMAIN fields : fields[k] # Undefined} |-> fields[key]])

RECURSIVE loadValue(_, _, _, _)
loadValue(h, m, shape, loaders) ==
    inputOf([key \in DOMAIN shape |->
                IF InstanceofZodObject(h, shape[key])
                THEN loadValue(h, m, Def(h, shape[key]).shape, subLoaders(loaders, key))
                ELSE leafLoop(h, m, shape[key], key, loaders, 1, Undefined)])

(***************************************************************************)
(* The validation engine (zod), as far as load and the tests use it        *)
(***************************************************************************)
ParseOk(data) == [ok |-> TRUE, data |-> data, issues |-> {}]
ParseFail(issues) == [ok |-> FALSE, data |-> Undefined, issues |-> issues]

\* the function given to transform(): v => ({ transformed: v })
TransformFn(v) == Obj([k \in {"transformed"} |-> v])

\* coerce.number: a number that is not NaN and not infinite
CheckNumber(c) == IF c.t = "number" THEN ParseOk(c) ELSE ParseFail({<<>>})

\* transform(fn) on the result of the inner schema
Transformed(r) == IF r.ok THEN ParseOk(TransformFn(r.data)) ELSE r

\* an object's result from its fields' results: the data without the absent
\* fields, or the issues, each under its field's name
ObjectResult(r) ==
    IF \A k \in DOMAIN r : r[k].ok
    THEN ParseOk(Obj([k \in {j \in DOMAIN r : r[j].data # Undefined} |-> r[k].data]))
    ELSE ParseFail(UNION {{<<k>> \o path : path \in r[k].issues} : k \in DOMAIN r})

RECURSIVE ZodParse(_, _, _)
ZodParse(h, id, v) ==
    LET def == Def(h, id)
    IN  CASE def.kind = "ZodString" ->
                IF v.t = "string" THEN ParseOk(v) ELSE ParseFail({<<>>})
          [] def.kind = "ZodNumber" -> CheckNumber(ToNumber(v))
          [] def.kind = "ZodBoolean" -> ParseOk(Bool(Truthy(v)))
          [] def.kind = "ZodEnum" ->
                IF v \in def.values THEN ParseOk(v) ELSE ParseFail({<<>>})
          [] def.kind = "ZodOptional" ->
                IF v = Undefined THEN ParseOk(Undefined) ELSE ZodParse(h, def.innerType, v)
          [] def.kind = "ZodNullable" ->
                IF v = Null THEN ParseOk(Null) ELSE ZodParse(h, def.innerType, v)
          [] def.kind = "ZodDefault" ->
                IF v = Undefined THEN ParseOk(def.defaultValue)
                ELSE ZodParse(h, def.innerType, v)
          [] def.kind = "ZodEffects" -> Transformed(ZodParse(h, def.schema, v))
          [] def.kind = "ZodObject" ->
                IF v.t # "object" THEN ParseFail({<<>>})
                ELSE ObjectResult([k \in DOMAIN def.shape |->
                                      ZodParse(h, def.shape[k], GetProp(v, k))])

\* the result object of safeParse
SafeParseResult(r) == [success |-> r.ok, data |-> r.data, error |-> [issues |-> r.issues]]

\* schema.safeParse(value): a result object, never a throw
safeParse(h, id, v) == SafeParseResult(ZodParse(h, id, v))

\* what a call does: returns a value or throws one
Returned(value) == [outcome |-> "returned", value |-> value]
Threw(value) == [outcome |-> "threw", value |-> value]

\* result.data returned, or result.error thrown
DataOrThrow(result) ==
    IF ~result.success THEN Threw(result.error) ELSE Returned(result.data)

\* schema.parse(value)
parse(h, id, v) == DataOrThrow(safeParse(h, id, v))

(***************************************************************************)
(* ZodConfSchema: safeLoad and load                                        *)
(***************************************************************************)
safeLoad(h, m, c, loaders) ==
    LET value == loadValue(h, m, c.shape, loaders)
    IN  safeParse(h, c.schema, value)

\* a variant of load that returns result.data whatever result.success is
loadReturnsData(h, m, c, loaders) ==
    Returned(safeLoad(h, m, c, loaders).data)

\* schema.load(...loaders): result.data, or result.error thrown
load(h, m, c, loaders) == DataOrThrow(safeLoad(h, m, c, loaders))

(***************************************************************************)
(* zod's chainable methods and properties, and the Proxy's get trap        *)
(***************************************************************************)
\* what a property read or a method call gives: a schema node (schema # 0) or
\* the outcome of a value-producing call
SchemaResult(id) == [schema |-> id, result |-> Returned(Undefined)]
PlainResult(result) == [schema |-> 0, result |-> result]

ChainMethods == {"optional", "nullable", "default", "transform", "describe"}
ValueMethods == {"parse", "safeParse"}
\* typeof target[prop] === 'function'
IsMethod(prop) == prop \in ChainMethods \cup ValueMethods

\* the node target.method(arg) creates, for a chainable method
ChainNode(h, target, method, arg) ==
    CASE method = "optional" -> Node("ZodOptional", target, 0, EmptyObj, Undefined, {}, Undefined)
      [] method = "nullable" -> Node("ZodNullable", target, 0, EmptyObj, Undefined, {}, Undefined)
      [] method = "default" -> Node("ZodDefault", target, 0, EmptyObj, Undefined, {}, arg)
      [] method = "transform" -> Node("ZodEffects", 0, target, EmptyObj, Undefined, {}, Undefined)
      [] method = "describe" -> [h[target] EXCEPT !.description = arg]

\* value.apply(target, args) on a zod instance
ZodMethod(h, m, target, method, arg) ==
    CASE method \in ChainMethods ->
            Outcome(Append(h, ChainNode(h, target, method, arg)), m, SchemaResult(Len(h) + 1))
      [] method = "parse" -> Outcome(h, m, PlainResult(parse(h, target, arg)))
      [] method = "safeParse" -> Outcome(h, m, PlainResult(Returned(safeParse(h, target, arg))))

\* target[prop] for a property that is no function
ZodProperty(h, target, prop) ==
    CASE prop = "description" -> h[target].description
      [] OTHER -> Undefined

\* result && typeof result === 'object' && result._def
IsSchemaResult(r) == r.schema # 0

\* the wrapped schema as the call's result
Wrapped(w) == Outcome(w.heap, w.meta, SchemaResult(w.ret))

\* what the function the trap returns does with the result of the call
rewrap(called, envKey, envType) ==
    IF IsSchemaResult(called.ret)
    THEN Wrapped(wrap(called.heap, called.meta, called.ret.schema, envKey, envType))
    ELSE called

\* a variant of the get trap that returns a method's result as it is
ProxyGetNoRewrap(h, m, proxied, prop, arg) ==
    IF IsMethod(prop)
    THEN ZodMethod(h, m, h[proxied].target, prop, arg)
    ELSE Outcome(h, m, PlainResult(Returned(ZodProperty(h, h[proxied].target, prop))))

\* a result that is no schema, wrapped all the same: the Proxy registered is
\* one around the target
rewrapAll(called, target, envKey, envType) ==
    IF IsSchemaResult(called.ret)
    THEN Wrapped(wrap(called.heap, called.meta, called.ret.schema, envKey, envType))
    ELSE Outcome(Append(called.heap, ProxyNode(target, envKey, envType)),
                 MetadataSet(called.meta, Len(called.heap) + 1, envKey, envType),
                 called.ret)

\* a variant of the get trap that wraps whatever a method returns, and reads
\* every other property from the Proxy's own fields
ProxyGetWrapsAll(h, m, proxied, prop, arg) ==
    IF IsMethod(prop)
    THEN rewrapAll(ZodMethod(h, m, h[proxied].target, prop, arg),
                   h[proxied].target, h[proxied].envKey, h[proxied].envType)
    ELSE Outcome(h, m, PlainResult(Returned(Undefined)))

\* the get trap of wrap's Proxy, followed by the call when the property is a
\* method: proxied[prop] or proxied[prop](arg)
ProxyGet(h, m, proxied, prop, arg) ==
    IF IsMethod(prop)
    THEN rewrap(ZodMethod(h, m, h[proxied].target, prop, arg),
                h[proxied].envKey, h[proxied].envType)
    ELSE Outcome(h, m, PlainResult(Returned(ZodProperty(h, h[proxied].target, prop))))

\* object(shape), both zc.object and the one define calls
object(h, m, shape) ==
    Outcome(Append(h, Node("ZodObject", 0, 0, shape, Undefined, {}, Undefined)), m, Len(h) + 1)

\* define(shape): new ZodConfSchema(shape, object(shape))
ZodConfSchema(shape, o) == Outcome(o.heap, o.meta, [shape |-> shape, schema |-> o.ret])

define(h, m, shape) == ZodConfSchema(shape, object(h, m, shape))

(***************************************************************************)
(* Inputs                                                                  *)
(***************************************************************************)
\* the heap may hold at most this many nodes
MaxNodes == 5
\* a load takes at most this many loaders
MaxLoaders == 2

S_true == <<"t", "r", "u", "e">>
S_false == <<"f", "a", "l", "s", "e">>
S_yes == <<"y", "e", "s">>
S_nope == <<"n", "o", "p", "e">>
S_3000 == <<"3", "0", "0", "0">>
S_9000 == <<"9", "0", "0", "0">>
S_1 == <<"1">>
S_pi == <<"3", ".", "1", "4">>
S_pending == <<"p", "e", "n", "d", "i", "n", "g">>
S_host == <<"0", ".", "0", ".", "0", ".", "0">>
S_localhost == <<"l", "o", "c", "a", "l", "h", "o", "s", "t">>
S_plain == <<"p", "l", "a", "i", "n">>

Keys == {"PORT", "HOST"}
Types == {"string", "number", "boolean", "enum"}
\* the mixed enum of the tests: numeric and string members
MixedEnum == {IntNum(0), IntNum(1), Str(S_pending)}
\* a plain list of strings, one of them a numeral
StringEnum == {Str(S_1), Str(S_pending)}

NoConf == [shape |-> EmptyObj, schema |-> 0]
NoCall == [op |-> "none"]
EmptyMeta == [k \in {} |-> NoMetadata]

Proxies(h) == {id \in 1..Len(h) : IsProxy(h, id)}

\* the values the model hands to parse, safeParse, default and describe
ParseInputs == {Str(S_3000), Str(S_nope), Undefined}

(***************************************************************************)
(* Actions: one per call the program's user can make                       *)
(***************************************************************************)
\* env(key).string(), .number(), .boolean(), .enum(values)
Env(key, type, values) ==
    /\ LET r == env(heap, envMetadata, key, type, values)
       IN  /\ heap' = r.heap
           /\ envMetadata' = r.meta
           /\ origin' = [p \in DOMAIN origin \cup {r.ret} |->
                            IF p = r.ret THEN [key |-> key, type |-> type] ELSE origin[p]]
           /\ last' = [op |-> "env", key |-> key, type |-> type, ret |-> r.ret]
    /\ UNCHANGED conf

\* a chainable combinator called on a Proxy: proxied.optional(), .default(d), ...
ProxyChain(proxied, method, arg) ==
    /\ proxied \in Proxies(heap)
    /\ method \in ChainMethods
    /\ LET r == ProxyGet(heap, envMetadata, proxied, method, arg)
       IN  /\ heap' = r.heap
           /\ envMetadata' = r.meta
           /\ origin' = [p \in DOMAIN origin \cup {r.ret.schema} |->
                            IF p = r.ret.schema THEN origin[proxied] ELSE origin[p]]
           /\ last' = [op |-> "chain", recv |-> proxied, prop |-> method, arg |-> arg,
                       ret |-> r.ret]
    /\ UNCHANGED conf

\* a value-producing method called on a Proxy: proxied.parse(v), .safeParse(v)
ProxyValueCall(proxied, method, arg) ==
    /\ proxied \in Proxies(heap)
    /\ method \in ValueMethods
    /\ LET r == ProxyGet(heap, envMetadata, proxied, method, arg)
       IN  /\ heap' = r.heap
           /\ envMetadata' = r.meta
           /\ last' = [op |-> "call", recv |-> proxied, prop |-> method, arg |-> arg,
                       ret |-> r.ret]
    /\ UNCHANGED <<conf, origin>>

\* a plain property read on a Proxy: proxied.description
ProxyRead(proxied, prop) ==
    /\ proxied \in Proxies(heap)
    /\ ~IsMethod(prop)
    /\ LET r == ProxyGet(heap, envMetadata, proxied, prop, Undefined)
       IN  /\ heap' = r.heap
           /\ envMetadata' = r.meta
           /\ last' = [op |-> "read", recv |-> proxied, prop |-> prop, arg |-> Undefined,
                       ret |-> r.ret]
    /\ UNCHANGED <<conf, origin>>

\* a zod schema made without env(): z.string(), z.number(), ...
ZodBase(type) ==
    /\ heap' = Append(heap, BaseNode(type, {}))
    /\ last' = [op |-> "zod", ret |-> Len(heap) + 1]
    /\ UNCHANGED <<envMetadata, conf, origin>>

\* a zod combinator applied without passing the get trap: the function form on
\* any node (z.optional(node), ...), or a method of a node that is no Proxy
ZodChain(id, method, arg) ==
    /\ id \in 1..Len(heap)
    /\ method \in ChainMethods
    /\ method = "describe" => ~IsProxy(heap, id)
    /\ heap' = Append(heap, ChainNode(heap, id, method, arg))
    /\ origin' = IF id \in DOMAIN origin
                 THEN [p \in DOMAIN origin \cup {Len(heap) + 1} |->
                            IF p = Len(heap) + 1 THEN origin[id] ELSE origin[p]]
                 ELSE origin
    /\ last' = [op |-> "zod", ret |-> Len(heap) + 1]
    /\ UNCHANGED <<envMetadata, conf>>

\* zc.object(shape)
Object(shape) ==
    /\ LET r == object(heap, envMetadata, shape)
       IN  /\ heap' = r.heap
           /\ envMetadata' = r.meta
           /\ last' = [op |-> "object", ret |-> r.ret]
    /\ UNCHANGED <<conf, origin>>

\* zc.define(shape)
Define(shape) ==
    /\ LET r == define(heap, envMetadata, shape)
       IN  /\ heap' = r.heap
           /\ envMetadata' = r.meta
           /\ conf' = r.ret
           /\ last' = [op |-> "define", ret |-> r.ret.schema]
    /\ UNCHANGED origin

\* a variant of SafeLoad that registers the schema it resolved
SafeLoadRegisters(loaders) ==
    /\ conf # NoConf
    /\ last' = [op |-> "safeLoad", loaders |-> loaders,
                input |-> loadValue(heap, envMetadata, conf.shape, loaders),
                ret |-> Returned(safeLoad(heap, envMetadata, conf, loaders))]
    /\ envMetadata' = MetadataSet(envMetadata, conf.schema, "PORT", "number")
    /\ UNCHANGED <<heap, conf, origin>>

\* schema.safeLoad(...loaders)
SafeLoad(loaders) ==
    /\ conf # NoConf
    /\ last' = [op |-> "safeLoad", loaders |-> loaders,
                input |-> loadValue(heap, envMetadata, conf.shape, loaders),
                ret |-> Returned(safeLoad(heap, envMetadata, conf, loaders))]
    /\ UNCHANGED <<heap, envMetadata, conf, origin>>

\* schema.load(...loaders)
Load(loaders) ==
    /\ conf # NoConf
    /\ last' = [op |-> "load", loaders |-> loaders,
                input |-> loadValue(heap, envMetadata, conf.shape, loaders),
                ret |-> load(heap, envMetadata, conf, loaders)]
    /\ UNCHANGED <<heap, envMetadata, conf, origin>>

(***************************************************************************)
(* Spec: the whole program, from an empty store                            *)
(***************************************************************************)
\* the argument the model passes to each chainable combinator
ChainArg(method) ==
    CASE method = "default" -> IntNum(3000)
      [] method = "describe" -> Str(S_plain)
      [] OTHER -> Undefined

EnumValuesFor(type) == IF type = "enum" THEN MixedEnum ELSE {}

SeqsUpTo(set, n) == UNION {[1..k -> set] : k \in 1..n}

\* the loaders of Spec: one environment and one values tree
SmallLoaders ==
    {EnvLoader([k \in {"PORT"} |-> Str(S_9000)]),
     ValuesLoader(Obj([k \in {"port"} |-> IntNum(8000)]))}

\* the lists of sources Spec resolves against: each loader alone, and the two
\* in both orders
SmallLists ==
    {<<l>> : l \in SmallLoaders} \cup {s \in [{1, 2} -> SmallLoaders] : s[1] # s[2]}

\* room for k more nodes
Room(k) == Len(heap) + k <= MaxNodes

Init ==
    /\ heap = <<>>
    /\ envMetadata = EmptyMeta
    /\ conf = NoConf
    /\ last = NoCall
    /\ origin = EmptyMeta

Next ==
    \/ \E key \in Keys :
            Room(2) /\ Env(key, "number", {})
    \/ \E proxied \in Proxies(heap) :
            Room(2) /\ ProxyChain(proxied, "default", ChainArg("default"))
    \/ \E proxied \in Proxies(heap) :
            ProxyValueCall(proxied, "safeParse", Str(S_3000))
    \/ \E proxied \in Proxies(heap) : ProxyRead(proxied, "description")
    \/ \E id \in 1..Len(heap) : Room(1) /\ Object([k \in {"port"} |-> id])
    \/ \E id \in 1..Len(heap) : Room(1) /\ Define([k \in {"port"} |-> id])
    \/ \E loaders \in SmallLists : SafeLoad(loaders)
    \/ \E loaders \in SmallLists : Load(loaders)

Spec == Init /\ [][Next]_vars

(***************************************************************************)
(* SpecBind: one binding of any key and type, chained through every        *)
(* combinator                                                              *)
(***************************************************************************)
\* the heap of SpecBind may hold at most this many nodes
MaxBindNodes == 8

\* one env(key).type() call has been made
InitBind ==
    \E key \in Keys, type \in Types :
        LET r == env(<<>>, EmptyMeta, key, type, EnumValuesFor(type))
        IN  /\ heap = r.heap
            /\ envMetadata = r.meta
            /\ conf = NoConf
            /\ origin = [p \in {r.ret} |-> [key |-> key, type |-> type]]
            /\ last = [op |-> "env", key |-> key, type |-> type, ret |-> r.ret]

\* the expression env(key).type().a().b()... grows by one combinator: the
\* receiver is the Proxy the last construction step returned
NextBind ==
    \/ \E method \in ChainMethods :
            Len(heap) + 2 <= MaxBindNodes /\ ProxyChain(Len(heap), method, ChainArg(method))
    \/ \E proxied \in Proxies(heap), method \in ValueMethods, arg \in ParseInputs :
            ProxyValueCall(proxied, method, arg)
    \/ \E proxied \in Proxies(heap) : ProxyRead(proxied, "description")

SpecBind == InitBind /\ [][NextBind]_vars

(***************************************************************************)
(* SpecCoerce: resolveEnvValue applied to one bound node of each type and  *)
(* an environment holding one raw string                                   *)
(***************************************************************************)
\* the raw strings of SpecCoerce: some named ones and every string over
\* Alphabet of at most MaxLen characters
MaxLen == 3
Alphabet == {"0", "1", ".", "-", " ", "x", "a"}

NamedStrings ==
    {S_true, S_false, S_yes, S_nope, S_3000, S_pi, S_pending, S_host,
     <<"T", "R", "U", "E">>, <<"1", "e", "3">>, InfinityChars,
     <<"-", "I", "n", "f", "i", "n", "i", "t", "y">>, <<"1", "2", "a", "b", "c">>}

RawStrings == NamedStrings \cup UNION {[1..k -> Alphabet] : k \in 0..MaxLen}

CoerceKey == "PORT"

\* one more env(CoerceKey) call after the calls that left o
CoerceBind(o, type, values) == env(o.heap, o.meta, CoerceKey, type, values)

\* env('PORT').string(), .number(), .boolean(), .enum(MixedEnum), .enum(StringEnum)
CoerceStart ==
    CoerceBind(
        CoerceBind(
            CoerceBind(
                CoerceBind(env(<<>>, EmptyMeta, CoerceKey, "string", {}), "number", {}),
                "boolean", {}),
            "enum", MixedEnum),
        "enum", StringEnum)

CoerceOrigin ==
    [p \in {2, 4, 6, 8, 10} |->
        [key |-> CoerceKey,
         type |-> CASE p = 2 -> "string" [] p = 4 -> "number" [] p = 6 -> "boolean"
                    [] OTHER -> "enum"]]

\* the environments of SpecCoerce: the key unset, set to undefined, or set to a
\* raw string
CoerceEnvs ==
    {EmptyObj, [k \in {CoerceKey} |-> Undefined]}
        \cup {[k \in {CoerceKey} |-> Str(raw)] : raw \in RawStrings}

\* the call about to be made: a bound node and an environment
InitCoerce ==
    /\ heap = CoerceStart.heap
    /\ envMetadata = CoerceStart.meta
    /\ conf = NoConf
    /\ origin = CoerceOrigin
    /\ \E schema \in Proxies(CoerceStart.heap), e \in CoerceEnvs :
            last = [op |-> "pending", schema |-> schema, env |-> Obj(e)]

\* this.resolveEnvValue(schema, env)
Resolve ==
    /\ last.op = "pending"
    /\ last' = [op |-> "resolveEnvValue", schema |-> last.schema, env |-> last.env,
                ret |-> resolveEnvValue(heap, envMetadata, last.schema, last.env)]
    /\ UNCHANGED <<heap, envMetadata, conf, origin>>

NextCoerce == Resolve

SpecCoerce == InitCoerce /\ [][NextCoerce]_vars

\* the raw value and the bound type of the last resolveEnvValue call
LastRaw == GetProp(last.env, origin[last.schema].key)
LastType == origin[last.schema].type
Resolved(type) == last.op = "resolveEnvValue" /\ LastType = type

\* a numeral: one or more decimal digits
IsNumeral(chars) == chars # <<>> /\ AllIn(chars, Digits)

(***************************************************************************)
(* C3: for a number binding, a numeral resolves to its numeric value, an   *)
(* unset key to absence, and a non-numeric raw string (one Number() turns  *)
(* into NaN) to absence.  The code returns NaN for the last case.          *)
(***************************************************************************)
C3_NumberResolution ==
    Resolved("number") =>
        /\ (LastRaw.t = "string" /\ IsNumeral(LastRaw.s)
                => last.ret = IntNum(RadixValue(LastRaw.s, 10)))
        /\ (LastRaw = Str(S_3000) => last.ret = IntNum(3000))
        /\ (LastRaw = Undefined => last.ret = Undefined)
        /\ (LastRaw.t = "string" /\ IsNaN(StringToNumber(LastRaw.s))
                => last.ret = Undefined)

(***************************************************************************)
(* C9: for a boolean binding, "true" resolves to true, "false" to false,   *)
(* and any other raw string, the empty one and an unset key included, to   *)
(* absence.                                                                *)
(***************************************************************************)
C9_BooleanResolution ==
    Resolved("boolean") =>
        /\ (LastRaw = Str(S_true) => last.ret = Bool(TRUE))
        /\ (LastRaw = Str(S_false) => last.ret = Bool(FALSE))
        /\ (LastRaw \notin {Str(S_true), Str(S_false)} => last.ret = Undefined)

C9_Witness ==
    /\ Resolved("boolean")
    /\ LastRaw = Str(S_yes)
    /\ last.ret = Undefined

(***************************************************************************)
(* C10: for an enum binding, the raw string resolves to a number exactly   *)
(* when it is non-empty and Number() gives a finite integral value, and    *)
(* that value is the result; otherwise the raw string passes through       *)
(* unchanged, and an unset key resolves to absence.                        *)
(***************************************************************************)
C10_EnumResolution ==
    Resolved("enum") =>
        /\ LastRaw = Undefined => last.ret = Undefined
        /\ LastRaw.t = "string" =>
            LET n == StringToNumber(LastRaw.s)
                integral == LastRaw.s # <<>> /\ n.t = "number" /\ n.e = 0
            IN  /\ IsNumberType(last.ret) <=> integral
                /\ integral => last.ret = n
                /\ ~integral => last.ret = LastRaw
        /\ (LastRaw = Str(S_1) => last.ret = IntNum(1))
        /\ (LastRaw = Str(S_pending) => last.ret = Str(S_pending))
        /\ (LastRaw = Str(S_pi) => last.ret = Str(S_pi))

C10_Witness ==
    /\ Resolved("enum")
    /\ LastRaw = Str(S_pi)
    /\ last.ret = Str(S_pi)

(***************************************************************************)
(* SpecLoad: load and safeLoad applied once to a defined configuration     *)
(* and a list of loaders                                                   *)
(***************************************************************************)
\* zc.define({
\*   port: zc.env('PORT').number(),
\*   debug: zc.env('DEBUG').boolean(),
\*   plain: z.string().default('plain'),
\*   server: zc.object({
\*     host: zc.env('HOST').string().default('localhost'),
\*     ssl: zc.object({ enabled: zc.env('SSL_ENABLED').boolean() }),
\*   }),
\* })
\* the calls so far: the heap and store they left, and the node each field
\* name stands for
NoFields == [heap |-> <<>>, meta |-> EmptyMeta, ids |-> [k \in {} |-> 0]]
Field(o, name, r) ==
    [heap |-> r.heap, meta |-> r.meta,
     ids |-> [k \in DOMAIN o.ids \cup {name} |-> IF k = name THEN r.ret ELSE o.ids[k]]]

\* the schema a chained call returned
Chained(r) == Outcome(r.heap, r.meta, r.ret.schema)

\* z.string().default('plain')
PlainDefault(h, m) ==
    Outcome(Append(Append(h, BaseNode("string", {})),
                   ChainNode(h, Len(h) + 1, "default", Str(S_plain))),
            m, Len(h) + 2)

\* env('HOST').string().default('localhost'), b the outcome of env('HOST').string()
HostDefault(b) == Chained(ProxyGet(b.heap, b.meta, b.ret, "default", Str(S_localhost)))

PortField(o) == Field(o, "port", env(o.heap, o.meta, "PORT", "number", {}))
DebugField(o) == Field(o, "debug", env(o.heap, o.meta, "DEBUG", "boolean", {}))
PlainField(o) == Field(o, "plain", PlainDefault(o.heap, o.meta))
HostField(o) == Field(o, "host", HostDefault(env(o.heap, o.meta, "HOST", "string", {})))
EnabledField(o) == Field(o, "enabled", env(o.heap, o.meta, "SSL_ENABLED", "boolean", {}))
SslGroup(o) ==
    Field(o, "ssl", object(o.heap, o.meta, [k \in {"enabled"} |-> o.ids[k]]))
ServerGroup(o) ==
    Field(o, "server", object(o.heap, o.meta, [k \in {"host", "ssl"} |-> o.ids[k]]))
DefineFields(o) ==
    define(o.heap, o.meta, [k \in {"port", "debug", "plain", "server"} |-> o.ids[k]])

LoadStart ==
    DefineFields(ServerGroup(SslGroup(EnabledField(HostField(PlainField(
        DebugField(PortField(NoFields))))))))

\* b.method(arg), b the outcome of the call that made the receiver
ChainOn(b, method, arg) == Chained(ProxyGet(b.heap, b.meta, b.ret, method, arg))

\* zc.define({
\*   server: zc.object({
\*     host: zc.env('HOST').string().default('localhost'),
\*     port: zc.env('PORT').number().default(3000),
\*   }),
\*   debug: zc.env('DEBUG').boolean().optional(),
\* })
DefaultHost(o) ==
    Field(o, "host", ChainOn(env(o.heap, o.meta, "HOST", "string", {}),
                             "default", Str(S_localhost)))
DefaultPort(o) ==
    Field(o, "port", ChainOn(env(o.heap, o.meta, "PORT", "number", {}),
                             "default", IntNum(3000)))
OptionalDebug(o) ==
    Field(o, "debug", ChainOn(env(o.heap, o.meta, "DEBUG", "boolean", {}),
                              "optional", Undefined))
DefaultServer(o) ==
    Field(o, "server", object(o.heap, o.meta, [k \in {"host", "port"} |-> o.ids[k]]))
DefineDefaults(o) == define(o.heap, o.meta, [k \in {"server", "debug"} |-> o.ids[k]])

DefaultsStart ==
    DefineDefaults(OptionalDebug(DefaultServer(DefaultPort(DefaultHost(NoFields)))))

\* zc.define({ port: zc.env('PORT').number(), host: zc.env('HOST').string() })
RequiredHost(o) == Field(o, "host", env(o.heap, o.meta, "HOST", "string", {}))
DefineRequired(o) == define(o.heap, o.meta, [k \in {"port", "host"} |-> o.ids[k]])

RequiredStart == DefineRequired(RequiredHost(PortField(NoFields)))

\* zc.define({ status: zc.env('STATUS').enum(['1', 'pending']) })
StatusField(o) == Field(o, "status", env(o.heap, o.meta, "STATUS", "enum", StringEnum))
DefineStatus(o) == define(o.heap, o.meta, [k \in {"status"} |-> o.ids[k]])

EnumStart == DefineStatus(StatusField(NoFields))

\* zc.define({
\*   server: zc.object({
\*     host: zc.env('HOST').string().default('localhost'),
\*     port: zc.env('PORT').number().default(3000),
\*   }).optional(),
\* })
OptionalServer(o) ==
    Field(o, "server",
          Outcome(Append(o.heap, ChainNode(o.heap, o.ids["server"], "optional", Undefined)),
                  o.meta, Len(o.heap) + 1))
DefineWrapped(o) == define(o.heap, o.meta, [k \in {"server"} |-> o.ids[k]])

WrappedStart ==
    DefineWrapped(OptionalServer(DefaultServer(DefaultPort(DefaultHost(NoFields)))))

\* the configurations SpecLoad loads
Starts == {LoadStart, DefaultsStart, RequiredStart, EnumStart, WrappedStart}

\* the origin the env() and chained calls of a configuration leave
LoadOrigin(start) == [p \in DOMAIN start.meta |-> start.meta[p]]

\* environments: raw strings by key
LoadEnvs ==
    {EmptyObj,
     [k \in {"PORT"} |-> Str(S_9000)],
     [k \in {"HOST"} |-> Str(S_host)],
     [k \in {"PORT", "DEBUG", "STATUS"} |->
        CASE k = "PORT" -> Str(S_nope)
          [] k = "DEBUG" -> Str(S_yes)
          [] k = "STATUS" -> Str(S_1)],
     [k \in {"PORT", "DEBUG", "HOST", "SSL_ENABLED", "STATUS"} |->
        CASE k = "PORT" -> Str(S_3000)
          [] k = "DEBUG" -> Str(S_true)
          [] k = "HOST" -> Str(S_host)
          [] k = "SSL_ENABLED" -> Str(S_false)
          [] k = "STATUS" -> Str(S_pending)],
     [k \in {"port", "plain", "host", "enabled"} |-> Str(S_1)]}

\* values trees: plain values by field name
LoadValues ==
    {EmptyObj,
     [k \in {"port"} |-> IntNum(8000)],
     [k \in {"port", "debug", "plain", "server"} |->
        CASE k = "port" -> IntNum(8000)
          [] k = "debug" -> Bool(FALSE)
          [] k = "plain" -> Str(S_plain)
          [] k = "server" ->
                Obj([j \in {"host", "ssl"} |->
                        IF j = "host" THEN Str(S_localhost)
                        ELSE Obj([i \in {"enabled"} |-> Bool(TRUE)])])],
     [k \in {"server", "PORT", "HOST", "host"} |->
        IF k = "server" THEN IntNum(5) ELSE IntNum(1)],
     [k \in {"plain", "server", "port", "debug"} |->
        CASE k = "plain" -> Null
          [] k = "server" ->
                Obj([j \in {"host", "ssl"} |-> IF j = "host" THEN IntNum(1) ELSE Null])
          [] k = "port" -> Arr([j \in {"0"} |-> IntNum(1)])
          [] k = "debug" -> Null]}

Loaders ==
    {EnvLoader(e) : e \in LoadEnvs} \cup {ValuesLoader(Obj(v)) : v \in LoadValues}

InitLoad ==
    /\ \E start \in Starts :
            /\ heap = start.heap
            /\ envMetadata = start.meta
            /\ conf = start.ret
            /\ origin = LoadOrigin(start)
    /\ \E loaders \in SeqsUpTo(Loaders, MaxLoaders) :
            last = [op |-> "pending", loaders |-> loaders]

NextLoad ==
    \/ last.op = "pending" /\ SafeLoad(last.loaders)
    \/ last.op = "pending" /\ Load(last.loaders)

SpecLoad == InitLoad /\ [][NextLoad]_vars

(***************************************************************************)
(* Properties of loadValue, load and safeLoad (SpecLoad)                   *)
(***************************************************************************)
Loaded == last.op \in {"load", "safeLoad"}

\* the leaf fields of a shape, each with its path of field names from the root
RECURSIVE Leaves(_, _, _)
Leaves(h, shape, prefix) ==
    UNION {IF InstanceofZodObject(h, shape[k])
           THEN Leaves(h, Def(h, shape[k]).shape, Append(prefix, k))
           ELSE {[path |-> Append(prefix, k), schema |-> shape[k]]}
           : k \in DOMAIN shape}

\* the nested shapes of a shape, each with its path
RECURSIVE Groups(_, _, _)
Groups(h, shape, prefix) ==
    UNION {IF InstanceofZodObject(h, shape[k])
           THEN {[path |-> Append(prefix, k), shape |-> Def(h, shape[k]).shape]}
                \cup Groups(h, Def(h, shape[k]).shape, Append(prefix, k))
           ELSE {}
           : k \in DOMAIN shape}

\* tree[p1][p2]...[pn], undefined as soon as a step finds no such key
RECURSIVE PathGet(_, _)
PathGet(tree, path) ==
    IF path = <<>> THEN tree ELSE PathGet(GetProp(tree, Head(path)), Tail(path))

\* the last defined value of a sequence of yields, undefined when there is none
LastDefined(ys) ==
    LET defined == {i \in DOMAIN ys : ys[i] # Undefined}
    IN  IF defined = {} THEN Undefined
        ELSE ys[CHOOSE i \in defined : \A j \in defined : j <= i]

\* what each source of the list yields for a leaf: a Values Source the value at
\* the leaf's path, an Environment Source the coerced string of the bound key
Yields(leaf, loaders) ==
    [i \in DOMAIN loaders |->
        IF HasValues(loaders[i]) THEN PathGet(loaders[i].values, leaf.path)
        ELSE resolveEnvValue(heap, envMetadata, leaf.schema, loaders[i].env)]

\* the same, with nothing from the Environment Sources
ValuesYields(leaf, loaders) ==
    [i \in DOMAIN loaders |->
        IF HasValues(loaders[i]) THEN PathGet(loaders[i].values, leaf.path)
        ELSE Undefined]

Port8000 == ValuesLoader(Obj([k \in {"port"} |-> IntNum(8000)]))
Port9000 == EnvLoader([k \in {"PORT"} |-> Str(S_9000)])

(***************************************************************************)
(* C1: for every leaf field and every list of sources, the merged input    *)
(* tree holds the value of the last source that yields a defined value for *)
(* the field, and no value when no source does; for a shape with a field   *)
(* port bound to PORT, values port 8000 followed by env PORT "9000" gives   *)
(* 9000, the reversed order 8000.                                          *)
(***************************************************************************)
C1_LastSourceWins ==
    Loaded =>
        /\ \A leaf \in Leaves(heap, conf.shape, <<>>) :
                PathGet(last.input, leaf.path) = LastDefined(Yields(leaf, last.loaders))
        /\ ("port" \in DOMAIN conf.shape /\ last.loaders = <<Port8000, Port9000>>
                => GetProp(last.input, "port") = IntNum(9000))
        /\ ("port" \in DOMAIN conf.shape /\ last.loaders = <<Port9000, Port8000>>
                => GetProp(last.input, "port") = IntNum(8000))

C1_Witness ==
    /\ Loaded
    /\ last.loaders = <<Port8000, Port9000>>
    /\ GetProp(last.input, "port") = IntNum(9000)

Unannotated(leaf) == FindMetadata(heap, envMetadata, leaf.schema) = NoMetadata

(***************************************************************************)
(* C2: a leaf field with no store entry on its chain of layers is absent   *)
(* from the merged input tree, whatever the list of sources.  The code     *)
(* assigns such a field from a Values Source.                              *)
(***************************************************************************)
C2_UnannotatedAbsent ==
    Loaded =>
        \A leaf \in Leaves(heap, conf.shape, <<>>) :
            Unannotated(leaf) => PathGet(last.input, leaf.path) = Undefined

(***************************************************************************)
(* C2, as the code has it: a leaf field with no store entry on its chain   *)
(* of layers takes nothing from an Environment Source; the merged input    *)
(* tree holds the last defined value the Values Sources have at the        *)
(* field's path, and the field is absent when there is none, as in a list  *)
(* of Environment Sources only.                                            *)
(***************************************************************************)
C2_UnannotatedFromValuesOnly ==
    Loaded =>
        \A leaf \in Leaves(heap, conf.shape, <<>>) :
            Unannotated(leaf) =>
                /\ PathGet(last.input, leaf.path)
                        = LastDefined(ValuesYields(leaf, last.loaders))
                /\ ((\A i \in DOMAIN last.loaders : ~HasValues(last.loaders[i]))
                        => PathGet(last.input, leaf.path) = Undefined)

C2_Witness ==
    /\ Loaded
    /\ Len(last.loaders) = 2
    /\ HasValues(last.loaders[1])
    /\ ~HasValues(last.loaders[2])
    /\ GetProp(last.loaders[2].env, "plain") = Str(S_1)
    /\ GetProp(last.input, "plain") = Str(S_plain)

\* a raw string the bound type cannot take
Uncoercible(type, raw) ==
    /\ raw.t = "string"
    /\ \/ type = "number" /\ IsNaN(StringToNumber(raw.s))
       \/ type = "boolean" /\ raw \notin {Str(S_true), Str(S_false)}

(***************************************************************************)
(* C4: an Environment Source whose raw string cannot be coerced to the     *)
(* bound type (number, boolean) leaves the tentative value as the earlier  *)
(* sources made it: with such a source last in the list, the merged input  *)
(* tree holds what the sources before it give, or nothing.  The code       *)
(* assigns NaN for a number binding (see C3).                              *)
(***************************************************************************)
C4_FailedCoercionKeepsValue ==
    Loaded =>
        \A leaf \in Leaves(heap, conf.shape, <<>>) :
            LET n == Len(last.loaders)
                metadata == FindMetadata(heap, envMetadata, leaf.schema)
            IN  (/\ ~Unannotated(leaf)
                 /\ ~HasValues(last.loaders[n])
                 /\ Uncoercible(metadata.type, GetProp(last.loaders[n].env, metadata.key)))
                => PathGet(last.input, leaf.path)
                        = LastDefined(Yields(leaf, SubSeq(last.loaders, 1, n - 1)))

(***************************************************************************)
(* C7: load throws exactly when safeLoad returns a failure, and what it    *)
(* throws is that result's error; otherwise load returns the data of       *)
(* safeLoad's success result.  safeLoad returns in either case.            *)
(***************************************************************************)
C7_LoadMatchesSafeLoad ==
    /\ last.op = "safeLoad" =>
            /\ last.ret.outcome = "returned"
            /\ last.ret.value = safeParse(heap, conf.schema, last.input)
    /\ last.op = "load" =>
            LET result == safeParse(heap, conf.schema, last.input)
            IN  /\ last.ret.outcome = "threw" <=> ~result.success
                /\ ~result.success => last.ret.value = result.error
                /\ result.success => last.ret.value = result.data

C7_Witness ==
    /\ last.op = "load"
    /\ last.ret.outcome = "threw"
    /\ last.ret.value.issues # {}
    /\ last.loaders = <<EnvLoader(EmptyObj)>>

\* the loaders the recursion hands to the nested shape at a path: the sub-tree
\* of each Values Source, each Environment Source as it is, in the same order
Narrowed(loaders, path) ==
    [i \in DOMAIN loaders |->
        IF HasValues(loaders[i])
        THEN LET nested == PathGet(loaders[i].values, path)
             IN  ValuesLoader(IF nested.t \in {"object", "array"} THEN nested
                              ELSE Obj(EmptyObj))
        ELSE loaders[i]]

(***************************************************************************)
(* C8: at every nesting depth the nested shape at a path is resolved from  *)
(* the list where each Values Source is replaced by its sub-tree at the    *)
(* path and each Environment Source is passed unchanged, in the same       *)
(* order: a leaf f under p1...pn is read from values[p1]...[pn][f] and     *)
(* from env by its bound key.                                              *)
(***************************************************************************)
C8_NestedGrouping ==
    Loaded =>
        \A g \in Groups(heap, conf.shape, <<>>) :
            /\ PathGet(last.input, g.path)
                    = loadValue(heap, envMetadata, g.shape, Narrowed(last.loaders, g.path))
            /\ \A f \in DOMAIN g.shape :
                    ~InstanceofZodObject(heap, g.shape[f]) =>
                        PathGet(last.input, Append(g.path, f))
                            = LastDefined(
                                [i \in DOMAIN last.loaders |->
                                    IF HasValues(last.loaders[i])
                                    THEN GetProp(PathGet(last.loaders[i].values, g.path), f)
                                    ELSE resolveEnvValue(heap, envMetadata, g.shape[f],
                                                         last.loaders[i].env)])

C8_Witness ==
    /\ Loaded
    /\ Len(last.loaders) = 2
    /\ HasValues(last.loaders[1])
    /\ PathGet(last.loaders[1].values, <<"server", "ssl", "enabled">>) = Bool(TRUE)
    /\ last.loaders[2] = EnvLoader([k \in {"PORT"} |-> Str(S_9000)])
    /\ PathGet(last.input, <<"server", "ssl", "enabled">>) = Bool(TRUE)
    /\ PathGet(last.input, <<"server", "host">>) = Str(S_localhost)

(***************************************************************************)
(* Properties of the Proxy (SpecBind)                                      *)
(***************************************************************************)
\* environments to resolve a chained node against
ProbeEnvs ==
    {Obj(EmptyObj),
     Obj([k \in Keys |-> IF k = "PORT" THEN Str(S_3000) ELSE Str(S_true)])}

(***************************************************************************)
(* C5: the node an env(K).T() call returned, and the node any sequence of  *)
(* chainable combinators called on it returned, has the annotation (K, T)  *)
(* for the resolver, and resolves from key K with T's coercion.            *)
(***************************************************************************)
C5_ChainDurability ==
    \A node \in DOMAIN origin :
        /\ FindMetadata(heap, envMetadata, node) = origin[node]
        /\ \A e \in ProbeEnvs :
                resolveEnvValue(heap, envMetadata, node, e)
                    = CoerceEnv(origin[node].type, GetProp(e, origin[node].key))

\* default -> optional -> transform, and the number resolved from PORT
C5_Witness ==
    /\ last.op = "chain"
    /\ last.prop = "transform"
    /\ Def(heap, last.recv).kind = "ZodOptional"
    /\ Def(heap, Def(heap, last.recv).innerType).kind = "ZodDefault"
    /\ origin[last.ret.schema] = [key |-> "PORT", type |-> "number"]
    /\ resolveEnvValue(heap, envMetadata, last.ret.schema,
                       Obj([k \in {"PORT"} |-> Str(S_3000)])) = IntNum(3000)

\* the same operation on the node under the Proxy
Direct(recv, prop, arg) ==
    IF IsMethod(prop)
    THEN ZodMethod(heap, envMetadata, heap[recv].target, prop, arg).ret
    ELSE PlainResult(Returned(ZodProperty(heap, heap[recv].target, prop)))

(***************************************************************************)
(* C6: parse, safeParse and a read of description on a Proxy give what the *)
(* same operation gives on the node under it, and such a call leaves the   *)
(* store and the nodes as they were.                                       *)
(***************************************************************************)
C6_Transparency ==
    /\ [](last.op \in {"call", "read"}
            => last.ret = Direct(last.recv, last.prop, last.arg))
    /\ [][last'.op \in {"call", "read"}
            => envMetadata' = envMetadata /\ heap' = heap]_vars

C6_Witness ==
    /\ last.op = "read"
    /\ last.prop = "description"
    /\ last.ret.result = Returned(Str(S_plain))
    /\ Def(heap, last.recv).kind = "ZodDefault"


(***************************************************************************)
(* C11: for a string binding, the raw string at the key is the result as   *)
(* it is, white space included, and an unset key or one set to undefined   *)
(* resolves to absence.                                                    *)
(***************************************************************************)
C11_StringResolution ==
    Resolved("string") =>
        /\ last.ret = LastRaw
        /\ (CoerceKey \notin DOMAIN last.env.o => last.ret = Undefined)
        /\ (LastRaw.t = "string" => last.ret.t = "string" /\ last.ret.s = LastRaw.s)

C11_Witness ==
    /\ Resolved("string")
    /\ LastRaw = Str(<<" ", "1", " ">>)
    /\ last.ret = Str(<<" ", "1", " ">>)


(***************************************************************************)
(* C17: for a number binding, the result is Number(raw) whenever a raw     *)
(* string is present at the key, the empty string included, and absence    *)
(* only when the key is unset.  The code resolves the empty string to      *)
(* absence.                                                                *)
(***************************************************************************)
C17_NumberWheneverPresent ==
    Resolved("number") =>
        /\ (LastRaw.t = "string" => last.ret = StringToNumber(LastRaw.s))
        /\ (last.ret = Undefined => LastRaw = Undefined)

(***************************************************************************)
(* C17, as the code has it: for a number binding, the result is            *)
(* Number(raw), NaN for a raw string that is no numeric literal, whenever  *)
(* the raw string at the key is not empty; the empty string, like an unset *)
(* key, resolves to absence.  A string of white space only is not empty    *)
(* and gives 0.                                                            *)
(***************************************************************************)
C17_NumberWhenNonEmpty ==
    Resolved("number") =>
        /\ (LastRaw.t = "string" /\ LastRaw.s # <<>>
                => last.ret = StringToNumber(LastRaw.s) /\ last.ret # Undefined)
        /\ (LastRaw = Str(<<>>) => last.ret = Undefined)
        /\ (LastRaw = Undefined => last.ret = Undefined)
        /\ (LastRaw = Str(S_3000) => last.ret = IntNum(3000))
        /\ (LastRaw = Str(<<"1", "e", "3">>) => last.ret = IntNum(1000))
        /\ (LastRaw = Str(<<"0", ".", "1">>) => last.ret = Num(1, 1))
        /\ (LastRaw = Str(<<" ">>) => last.ret = IntNum(0))
        /\ (LastRaw = Str(<<"0">>) => last.ret = IntNum(0))
        /\ (LastRaw = Str(S_nope) => last.ret = NaN)

C17_Witness ==
    /\ Resolved("number")
    /\ LastRaw = Str(<<>>)
    /\ last.ret = Undefined


\* a load or safeLoad that ended in a validation failure, and its issues' paths
Failed ==
    IF last.op = "safeLoad" THEN ~last.ret.value.success
    ELSE last.ret.outcome = "threw"
Issues ==
    IF last.op = "safeLoad" THEN last.ret.value.error.issues
    ELSE last.ret.value.issues

\* the raw string the last Environment Source that sets the key gives
LastRawAt(loaders, key) ==
    LastDefined([i \in DOMAIN loaders |->
                    IF HasEnv(loaders[i]) THEN GetProp(loaders[i].env, key)
                    ELSE Undefined])

(***************************************************************************)
(* C16: for an enum binding whose permitted values are strings only, one   *)
(* of them "1", the raw string "1" is resolved to the number 1; the merged *)
(* input tree holds the number and the enum validation fails at the field, *)
(* although the raw string is a permitted value.  The raw string "pending" *)
(* is resolved to itself and loads.                                        *)
(***************************************************************************)
C16_StringEnumNumeral ==
    (Loaded /\ conf = EnumStart.ret) =>
        LET values == Def(heap, conf.shape["status"]).values
            raw == LastRawAt(last.loaders, "STATUS")
        IN  /\ \A v \in values : v.t = "string"
            /\ Str(S_1) \in values
            /\ raw = Str(S_1) =>
                    /\ GetProp(last.input, "status") = IntNum(1)
                    /\ Failed
                    /\ <<"status">> \in Issues
            /\ raw = Str(S_pending) =>
                    /\ GetProp(last.input, "status") = Str(S_pending)
                    /\ ~Failed

C16_Witness ==
    /\ last.op = "safeLoad"
    /\ conf = EnumStart.ret
    /\ LastRawAt(last.loaders, "STATUS") = Str(S_1)
    /\ GetProp(last.input, "status") = IntNum(1)
    /\ ~last.ret.value.success


\* a list of sources without its i-th
Without(loaders, i) ==
    [j \in 1..(Len(loaders) - 1) |-> IF j < i THEN loaders[j] ELSE loaders[j + 1]]

\* a Values Source that has no container at the path
NoContainerAt(loader, path) ==
    /\ HasValues(loader)
    /\ PathGet(loader.values, path).t \notin {"object", "array"}

(***************************************************************************)
(* C18: the entry of a nested group in the merged input tree is always an  *)
(* object; a Values Source whose value at the group's path is absent, a    *)
(* scalar or null gives nothing under the group: the group's entry, and    *)
(* every leaf under it, is what the list without that source gives, so the *)
(* earlier values are kept and the later sources apply.                    *)
(***************************************************************************)
C18_NonContainerGroup ==
    Loaded =>
        \A g \in Groups(heap, conf.shape, <<>>) :
            /\ PathGet(last.input, g.path).t = "object"
            /\ \A i \in DOMAIN last.loaders :
                    NoContainerAt(last.loaders[i], g.path) =>
                        /\ PathGet(last.input, g.path)
                            = PathGet(loadValue(heap, envMetadata, conf.shape,
                                                Without(last.loaders, i)), g.path)
                        /\ \A leaf \in Leaves(heap, g.shape, g.path) :
                                PathGet(last.input, leaf.path)
                                    = LastDefined(Yields(leaf, Without(last.loaders, i)))

C18_Witness ==
    /\ Loaded
    /\ conf = LoadStart.ret
    /\ Len(last.loaders) = 2
    /\ HasValues(last.loaders[1])
    /\ NoContainerAt(last.loaders[2], <<"server">>)
    /\ GetProp(last.loaders[2].values, "server") = IntNum(5)
    /\ PathGet(last.input, <<"server", "host">>) = Str(S_localhost)
    /\ PathGet(last.input, <<"server", "ssl", "enabled">>) = Bool(TRUE)


\* a leaf declared without optional() or default(): the node is the base schema
Required(leaf) ==
    Def(heap, leaf.schema).kind \in {"ZodString", "ZodNumber", "ZodBoolean", "ZodEnum"}

\* the annotation of a leaf
Bound(leaf) == FindMetadata(heap, envMetadata, leaf.schema)

\* no source of the list has anything for the leaf: no value at its path, no
\* raw string at its key
Unset(leaf, loaders) ==
    \A i \in DOMAIN loaders :
        IF HasValues(loaders[i])
        THEN PathGet(loaders[i].values, leaf.path) = Undefined
        ELSE GetProp(loaders[i].env, Bound(leaf).key) = Undefined

\* the last source of the list is an Environment Source with a non-numeric
\* string at the leaf's key
EndsNonNumeric(leaf, loaders) ==
    LET loader == loaders[Len(loaders)]
    IN  /\ ~HasValues(loader)
        /\ Uncoercible("number", GetProp(loader.env, Bound(leaf).key))

(***************************************************************************)
(* C15: safeLoad never raises.  For a required number binding and a list   *)
(* of sources ending in an Environment Source with a non-numeric string at *)
(* the key, and for a required bound field with nothing at its key or      *)
(* path in any source, the result is a failure with an issue at the        *)
(* field's path, and load raises the error with its issues.  The code      *)
(* loads a required boolean binding that no source sets as false.          *)
(***************************************************************************)
C15_RequiredFailure ==
    Loaded =>
        /\ last.op = "safeLoad" => last.ret.outcome = "returned"
        /\ \A leaf \in Leaves(heap, conf.shape, <<>>) :
                /\ Required(leaf)
                /\ Bound(leaf) # NoMetadata
                /\ \/ Bound(leaf).type = "number" /\ EndsNonNumeric(leaf, last.loaders)
                   \/ Unset(leaf, last.loaders)
                => /\ Failed
                   /\ leaf.path \in Issues
                   /\ last.op = "load" => last.ret.outcome = "threw"


\* the value default() gives a leaf that has none, nothing for optional()
DefaultOf(leaf) ==
    IF Def(heap, leaf.schema).kind = "ZodDefault"
    THEN Def(heap, leaf.schema).defaultValue
    ELSE Undefined

\* every Values Source holds, at the leaf's path, nothing or a value of the
\* type the leaf is bound as
WellTyped(leaf, loaders) ==
    \A i \in DOMAIN loaders :
        HasValues(loaders[i]) =>
            PathGet(loaders[i].values, leaf.path).t \in {"undefined", Bound(leaf).type}

HostOnly == EnvLoader([k \in {"HOST"} |-> Str(S_host)])

(***************************************************************************)
(* C14: for the shape of nested groups whose bound leaves have a default   *)
(* or are optional, and sources whose values are of the leaves' types,     *)
(* load returns, and the data holds for each leaf the value of the last    *)
(* source that yields one, else the default, else (optional) nothing;      *)
(* with the one source env HOST "0.0.0.0" the data is host "0.0.0.0",      *)
(* port 3000.  The code fails the load when the environment string of a    *)
(* number binding is not numeric (see C3).                                 *)
(***************************************************************************)
C14_DefaultsEndToEnd ==
    (/\ last.op = "load"
     /\ conf = DefaultsStart.ret
     /\ \A leaf \in Leaves(heap, conf.shape, <<>>) : WellTyped(leaf, last.loaders))
    => /\ last.ret.outcome = "returned"
       /\ \A leaf \in Leaves(heap, conf.shape, <<>>) :
            LET y == LastDefined(Yields(leaf, last.loaders))
            IN  PathGet(last.ret.value, leaf.path)
                    = IF y # Undefined THEN y ELSE DefaultOf(leaf)
       /\ last.loaders = <<HostOnly>> =>
            /\ PathGet(last.ret.value, <<"server", "host">>) = Str(S_host)
            /\ PathGet(last.ret.value, <<"server", "port">>) = IntNum(3000)
            /\ PathGet(last.ret.value, <<"debug">>) = Undefined


(***************************************************************************)
(* SpecWalk: one env(key).type() call, then layers put around the node it  *)
(* returned, through the Proxy or around it, and resolutions of the        *)
(* outermost layer                                                         *)
(***************************************************************************)
\* the heap of SpecWalk may hold at most this many nodes
MaxWalkNodes == 6

\* this.resolveEnvValue(schema, env), at any time
ResolveEnvValue(schema, e) ==
    /\ schema \in 1..Len(heap)
    /\ last' = [op |-> "resolve", schema |-> schema, env |-> e,
                ret |-> resolveEnvValue(heap, envMetadata, schema, e)]
    /\ UNCHANGED <<heap, envMetadata, conf, origin>>

\* the expression grows by one layer around the node the last step made: a
\* combinator called on the Proxy, a combinator applied around the node, or a
\* fresh z.string() to start an expression with no env() in it
NextWalk ==
    \/ \E method \in ChainMethods :
            /\ Len(heap) + 2 <= MaxWalkNodes
            /\ ProxyChain(Len(heap), method, ChainArg(method))
    \/ \E method \in ChainMethods :
            /\ Len(heap) + 1 <= MaxWalkNodes
            /\ ZodChain(Len(heap), method, ChainArg(method))
    \/ Len(heap) + 1 <= MaxWalkNodes /\ ZodBase("string")
    \/ \E e \in ProbeEnvs : ResolveEnvValue(Len(heap), e)

SpecWalk == InitBind /\ [][NextWalk]_vars

\* the layer under a layer: _def.innerType, else _def.schema, else none (0)
Inner(h, id) ==
    IF Def(h, id).innerType # 0 THEN Def(h, id).innerType ELSE Def(h, id).schema

\* a node and the layers under it, outermost first
RECURSIVE Layers(_, _)
Layers(h, id) == IF id = 0 THEN <<>> ELSE <<id>> \o Layers(h, Inner(h, id))

\* the store entry of the outermost layer that has one
FirstAnnotation(h, m, id) ==
    LET layers == Layers(h, id)
        found == {i \in DOMAIN layers : layers[i] \in DOMAIN m}
    IN  IF found = {} THEN NoMetadata
        ELSE m[layers[CHOOSE i \in found : \A j \in found : i <= j]]

(***************************************************************************)
(* C19: for every node the walk finds the store entry of the outermost     *)
(* layer that has one, going from a layer without entry to its innerType,  *)
(* else to its schema, and finds none when no layer has one; a bound node  *)
(* under any number of layers without entry, put around the Proxy, has the *)
(* annotation of the env() call and resolves from its key with its type's  *)
(* coercion, and a node with no bound node under it resolves to nothing.   *)
(***************************************************************************)
C19_RecoveryWalk ==
    /\ \A id \in 1..Len(heap) :
            FindMetadata(heap, envMetadata, id) = FirstAnnotation(heap, envMetadata, id)
    /\ \A id \in DOMAIN origin :
            FindMetadata(heap, envMetadata, id) = origin[id]
    /\ last.op = "resolve" =>
            last.ret = IF last.schema \in DOMAIN origin
                       THEN CoerceEnv(origin[last.schema].type,
                                      GetProp(last.env, origin[last.schema].key))
                       ELSE Undefined

\* resolved through a transform and an optional, neither with a store entry
C19_Witness ==
    /\ last.op = "resolve"
    /\ last.schema \notin DOMAIN envMetadata
    /\ heap[last.schema].kind = "ZodEffects"
    /\ heap[last.schema].schema \notin DOMAIN envMetadata
    /\ heap[heap[last.schema].schema].kind = "ZodOptional"
    /\ last.schema \in DOMAIN origin
    /\ origin[last.schema] = [key |-> "HOST", type |-> "string"]
    /\ last.ret = Str(S_true)


\* the shape with the one field port, of any node
PortShape(id) == [k \in {"port"} |-> id]

(***************************************************************************)
(* C12: no call changes what a resolution gives: for every shape over the  *)
(* nodes made so far and every list of sources, the merged input tree      *)
(* after a call that makes a node or a store entry (a bind, a combinator   *)
(* call, object, define) is the one before it, and so is the result of     *)
(* safeLoad; a resolution leaves nodes and store as they are (C13), and    *)
(* repeated with the same sources returns what it returned before.         *)
(***************************************************************************)
C12_Idempotence ==
    [][/\ (heap' # heap \/ envMetadata' # envMetadata) =>
            \A id \in 1..Len(heap), loaders \in SmallLists :
                loadValue(heap', envMetadata', PortShape(id), loaders)
                    = loadValue(heap, envMetadata, PortShape(id), loaders)
       /\ (conf # NoConf /\ conf' = conf
                /\ (heap' # heap \/ envMetadata' # envMetadata)) =>
            \A loaders \in SmallLists :
                safeLoad(heap', envMetadata', conf, loaders)
                    = safeLoad(heap, envMetadata, conf, loaders)
       /\ (Loaded /\ last'.op = last.op /\ last'.loaders = last.loaders /\ conf' = conf)
            => last' = last]_vars

\* a resolution made after a later env() call: the define came before it
C12_Witness ==
    /\ Loaded
    /\ Len(heap) = 5
    /\ conf.schema = 3
    /\ last.loaders = <<Port9000>>
    /\ GetProp(last.input, "port") = IntNum(9000)

(***************************************************************************)
(* C13: a load or safeLoad call leaves the store, the nodes and the shape  *)
(* as they were; the sources after the call are the sources given, and the *)
(* merged input tree is an object the call built.                          *)
(***************************************************************************)
C13_ResolutionFrame ==
    [][last'.op \in {"load", "safeLoad"} =>
            /\ envMetadata' = envMetadata
            /\ heap' = heap
            /\ conf' = conf
            /\ last'.loaders \in SmallLists
            /\ last'.input = loadValue(heap, envMetadata, conf.shape, last'.loaders)
            /\ last'.input.t = "object"]_vars

C13_Witness ==
    /\ last.op = "safeLoad"
    /\ last.loaders = <<Port8000, Port9000>>
    /\ DOMAIN envMetadata = {2}
    /\ conf.shape = PortShape(2)
    /\ last.ret.value.success

(***************************************************************************)
(* C20: an entry of the store is never changed or removed; an env() call   *)
(* and a combinator call on a Proxy each add one entry, for a node made by *)
(* that call, and no other call touches the store; every Proxy has its own *)
(* entry, the key and type of the env() call it comes from, and resolves   *)
(* from that key, whatever other env() calls were made.                    *)
(***************************************************************************)
C20_StoreInvariant ==
    /\ [](\A p \in Proxies(heap) :
            /\ p \in DOMAIN envMetadata
            /\ envMetadata[p] = origin[p]
            /\ \A e \in ProbeEnvs :
                    resolveEnvValue(heap, envMetadata, p, e)
                        = CoerceEnv(origin[p].type, GetProp(e, origin[p].key)))
    /\ [][/\ \A id \in DOMAIN envMetadata :
                id \in DOMAIN envMetadata' /\ envMetadata'[id] = envMetadata[id]
          /\ IF last'.op \in {"env", "chain"}
             THEN \E new \in DOMAIN envMetadata' \ (1..Len(heap)) :
                        DOMAIN envMetadata' = DOMAIN envMetadata \cup {new}
             ELSE envMetadata' = envMetadata]_vars

\* two env() calls with different keys, each with its entry
C20_Witness ==
    /\ last.op = "env"
    /\ Len(heap) = 4
    /\ envMetadata[2] = [key |-> "PORT", type |-> "number"]
    /\ envMetadata[4] = [key |-> "HOST", type |-> "number"]


\* the env keys of the store, and the field names of a shape at every depth
ExternalKeys == {envMetadata[p].key : p \in DOMAIN envMetadata}
FieldNames ==
    {leaf.path[Len(leaf.path)] : leaf \in Leaves(heap, conf.shape, <<>>)}
        \cup {g.path[Len(g.path)] : g \in Groups(heap, conf.shape, <<>>)}

\* an object without some of its own keys
OmitKeys(v, keys) == Obj([k \in DOMAIN v.o \ keys |-> v.o[k]])

\* the list of sources with every Values Source entry named like an env key
\* and every Environment Source entry named like a field taken out
Stripped(loaders) ==
    [i \in DOMAIN loaders |->
        IF HasValues(loaders[i])
        THEN ValuesLoader(OmitKeys(loaders[i].values, ExternalKeys))
        ELSE EnvLoader(OmitKeys(loaders[i].env, FieldNames).o)]

\* what each source gives a leaf by its own address: a Values Source the value
\* at the path of field names, an Environment Source the coerced string at the
\* key of the leaf's annotation
Addressed(leaf, loaders) ==
    [i \in DOMAIN loaders |->
        IF HasValues(loaders[i]) THEN PathGet(loaders[i].values, leaf.path)
        ELSE IF Bound(leaf) = NoMetadata THEN Undefined
        ELSE CoerceEnv(Bound(leaf).type, GetProp(loaders[i].env, Bound(leaf).key))]

(***************************************************************************)
(* C21: the merged input tree holds, for every leaf, the last defined of   *)
(* what the sources give by their own address: a Values Source the value   *)
(* at the field names, as it is (null, an array, a value of another type   *)
(* than the binding's), an Environment Source the string at the annotated  *)
(* key.  The tree is the same with every Values Source entry named like an *)
(* env key and every Environment Source entry named like a field removed.  *)
(***************************************************************************)
C21_SourceAddressing ==
    Loaded =>
        /\ \A leaf \in Leaves(heap, conf.shape, <<>>) :
                /\ PathGet(last.input, leaf.path)
                        = LastDefined(Addressed(leaf, last.loaders))
                /\ LET loader == last.loaders[Len(last.loaders)]
                   IN  (HasValues(loader) /\ PathGet(loader.values, leaf.path) # Undefined)
                            => PathGet(last.input, leaf.path)
                                    = PathGet(loader.values, leaf.path)
        /\ last.input = loadValue(heap, envMetadata, conf.shape, Stripped(last.loaders))

\* a values tree with an array at port and null at debug, then an environment
\* with entries named like the fields: the array and null are in the tree
C21_Witness ==
    /\ Loaded
    /\ conf = LoadStart.ret
    /\ Len(last.loaders) = 2
    /\ GetProp(last.loaders[1].values, "port") = Arr([j \in {"0"} |-> IntNum(1)])
    /\ GetProp(last.loaders[2].env, "port") = Str(S_1)
    /\ GetProp(last.input, "port") = Arr([j \in {"0"} |-> IntNum(1)])
    /\ GetProp(last.input, "debug") = Null


\* the field server of the configuration with the wrapped group, as a leaf
WrappedServer == [path |-> <<"server">>, schema |-> conf.shape["server"]]

(***************************************************************************)
(* C22: a group under optional() is no ZodObject for loadValue and is not  *)
(* recursed into; the walk from it finds no annotation although every leaf *)
(* inside the group is bound, so an Environment Source gives the field     *)
(* nothing, and the merged input tree holds at the field the whole value   *)
(* of the last Values Source that has one there, not merged with the       *)
(* value of an earlier one; with Environment Sources only the tree is      *)
(* empty.                                                                  *)
(***************************************************************************)
C22_WrappedGroupIsLeaf ==
    (Loaded /\ conf = WrappedStart.ret) =>
        LET node == conf.shape["server"]
            group == Def(heap, node).innerType
        IN  /\ Def(heap, node).kind = "ZodOptional"
            /\ ~InstanceofZodObject(heap, node)
            /\ InstanceofZodObject(heap, group)
            /\ FindMetadata(heap, envMetadata, node) = NoMetadata
            /\ \A k \in DOMAIN Def(heap, group).shape :
                    FindMetadata(heap, envMetadata, Def(heap, group).shape[k]) # NoMetadata
            /\ \A i \in DOMAIN last.loaders :
                    HasEnv(last.loaders[i]) =>
                        resolveEnvValue(heap, envMetadata, node, last.loaders[i].env)
                            = Undefined
            /\ DOMAIN last.input.o \subseteq {"server"}
            /\ GetProp(last.input, "server")
                    = LastDefined(ValuesYields(WrappedServer, last.loaders))
            /\ (\A i \in DOMAIN last.loaders : ~HasValues(last.loaders[i]))
                    => last.input = Obj(EmptyObj)
            /\ (/\ Len(last.loaders) = 2
                /\ PathGet(last.loaders[1].values, <<"server", "ssl", "enabled">>) = Bool(TRUE)
                /\ PathGet(last.loaders[2].values, <<"server", "host">>) = IntNum(1))
                    => GetProp(last.input, "server") = GetProp(last.loaders[2].values, "server")

\* a values tree with server.host, then an environment that sets HOST: the
\* field holds the tree's server, the environment's HOST is not in it
C22_Witness ==
    /\ Loaded
    /\ conf = WrappedStart.ret
    /\ Len(last.loaders) = 2
    /\ PathGet(last.loaders[1].values, <<"server", "host">>) = Str(S_localhost)
    /\ GetProp(last.loaders[2].env, "HOST") = Str(S_host)
    /\ GetProp(last.input, "server") = GetProp(last.loaders[1].values, "server")
    /\ PathGet(last.input, <<"server", "host">>) = Str(S_localhost)

====
